---- MODULE Spec2Model ----
(***************************************************************************)
(* Model of hoyolabrssfeeds: the FeedItem model with its HTML-to-plaintext *)
(* helper (models.py) and the create_feeds entry point (__main__.py).      *)
(*                                                                         *)
(* A Python str is a sequence of characters; a character is a one-element  *)
(* TLA+ string, except "bullet" (U+2022) and "emdash" (U+2014).            *)
(***************************************************************************)
EXTENDS Integers, Sequences, FiniteSets, TLC

\* Python's None: a one-element sequence whose element is no character.
None == <<"None">>

\* ------------------------------------------------------------------ bounds

\* Pieces per input text, from all the pieces and from the core pieces.
MaxFrags == 2

MaxCoreFrags == 3

\* Configured game feeds, items fetched in one run, and the largest item id.
MaxSources == 2

MaxItems == 3

MaxId == 3

\* Pieces of an item's content.
MaxContentFrags == 1

\* Calls of content_plaintext on one item.
MaxCalls == 2

\* ------------------------------------------------------- string primitives

Quote == "\""

\* The characters Python's str.strip() and the regex class \s remove.
WS == {" ", "\t", "\n", "\r"}

UpperChars ==
  <<"A", "B", "C", "D", "E", "F", "G", "H", "I", "J", "K", "L", "M",
    "N", "O", "P", "Q", "R", "S", "T", "U", "V", "W", "X", "Y", "Z">>

LowerChars ==
  <<"a", "b", "c", "d", "e", "f", "g", "h", "i", "j", "k", "l", "m",
    "n", "o", "p", "q", "r", "s", "t", "u", "v", "w", "x", "y", "z">>

LowerOf == [c \in {UpperChars[k] : k \in 1..Len(UpperChars)} |->
              LowerChars[CHOOSE k \in 1..Len(UpperChars) : UpperChars[k] = c]]

UpperSet == DOMAIN LowerOf

\* Case folding of the (?i) flag.
Lower(c) == IF c \in UpperSet THEN LowerOf[c] ELSE c

Sub(s, a, b) == IF b < a THEN <<>> ELSE SubSeq(s, a, b)

\* lit (lower case) matches s at i, ignoring case.
LitAt(s, i, lit) ==
  /\ i >= 1
  /\ i + Len(lit) - 1 <= Len(s)
  /\ \A k \in 1..Len(lit) : Lower(s[i + k - 1]) = lit[k]

\* lit matches s at i exactly.
ExactAt(s, i, lit) ==
  /\ i >= 1
  /\ i + Len(lit) - 1 <= Len(s)
  /\ \A k \in 1..Len(lit) : s[i + k - 1] = lit[k]

\* The least j >= i with s[j] in C, or 0.
FirstIn(s, i, C) ==
  IF \E j \in i..Len(s) : s[j] \in C
  THEN CHOOSE j \in i..Len(s) : s[j] \in C /\ \A k \in i..(j - 1) : s[k] \notin C
  ELSE 0

\* The least j >= i with j past the end or s[j] not in C.
SkipWhile(s, i, C) ==
  IF \E j \in i..Len(s) : s[j] \notin C
  THEN CHOOSE j \in i..Len(s) : s[j] \notin C /\ \A k \in i..(j - 1) : s[k] \in C
  ELSE IF i > Len(s) THEN i ELSE Len(s) + 1

\* The greatest j <= i with j before the start or s[j] not in C.
SkipBack(s, i, C) ==
  IF \E j \in 1..i : s[j] \notin C
  THEN CHOOSE j \in 1..i : s[j] \notin C /\ \A k \in (j + 1)..i : s[k] \in C
  ELSE IF i < 1 THEN i ELSE 0

\* str.strip()
Strip(s) == Sub(s, SkipWhile(s, 1, WS), SkipBack(s, Len(s), WS))

SetMax(S) == CHOOSE x \in S : \A y \in S : y <= x

\* The positions of s.
Pos(s) == 1..Len(s)

\* re.sub(pattern, repl, s) for a pattern that matches no empty string:
\* M[i] is the index just past the match that starts at i (0: no match),
\* R[i] the replacement of that match.  Matches are taken left to right and
\* do not overlap: run[i, k] is the output of k steps of the scan from i,
\* a step being one match or one unmatched character, and the index the
\* scan is at after them.
ReSub(s, M, R) ==
  LET n == Len(s)
      run[i \in 1..(n + 1), k \in 1..n] ==
        IF k = 1
        THEN IF i > n THEN [out |-> <<>>, at |-> i]
             ELSE LET e == M[i]
                  IN IF e > i THEN [out |-> R[i], at |-> e]
                     ELSE [out |-> <<s[i]>>, at |-> i + 1]
        ELSE LET h == k \div 2
                 a == run[i, h]
                 b == run[a.at, k - h]
             IN [out |-> a.out \o b.out, at |-> b.at]
  IN IF n = 0 THEN <<>> ELSE run[1, n].out

\* str.replace(old, new)
Replace(s, old, new) ==
  ReSub(s, [i \in Pos(s) |-> IF ExactAt(s, i, old) THEN i + Len(old) ELSE 0],
           [i \in Pos(s) |-> new])

\* ------------------------------------------- FeedItem._html_to_plaintext

\* The index just past the first ">" at or after i, or 0: [^>]*> from i.
PastGT(s, i) ==
  LET g == FirstIn(s, i, {">"}) IN IF g = 0 THEN 0 ELSE g + 1

\* </name\s*> at i
MatchClose(s, i, name) ==
  IF LitAt(s, i, <<"<", "/">> \o name)
  THEN LET j == SkipWhile(s, i + 2 + Len(name), WS)
       IN IF j <= Len(s) /\ s[j] = ">" THEN j + 1 ELSE 0
  ELSE 0

\* <br\s*/?> at i
MatchBr(s, i) ==
  IF LitAt(s, i, <<"<", "b", "r">>)
  THEN LET j == SkipWhile(s, i + 3, WS)
           k == IF j <= Len(s) /\ s[j] = "/" THEN j + 1 ELSE j
       IN IF k <= Len(s) /\ s[k] = ">" THEN k + 1 ELSE 0
  ELSE 0

\* <p[^>]*> at i
MatchOpenP(s, i) ==
  IF LitAt(s, i, <<"<", "p">>) THEN PastGT(s, i + 2) ELSE 0

\* <li[^>]*>\s* at i
MatchLi(s, i) ==
  IF LitAt(s, i, <<"<", "l", "i">>)
  THEN LET e == PastGT(s, i + 3)
       IN IF e = 0 THEN 0 ELSE SkipWhile(s, e, WS)
  ELSE 0

\* </?(ul|ol)[^>]*> at i
MatchListTag(s, i) ==
  IF i <= Len(s) /\ s[i] = "<"
  THEN LET k == IF i + 1 <= Len(s) /\ s[i + 1] = "/" THEN i + 2 ELSE i + 1
       IN IF LitAt(s, k, <<"u", "l">>) \/ LitAt(s, k, <<"o", "l">>)
          THEN PastGT(s, k + 2)
          ELSE 0
  ELSE 0

\* The positions k >= from at which lit starts after a run of [^>]*.
AttrStarts(s, from, lit) ==
  LET g == FirstIn(s, from, {">"})
      limit == IF g = 0 THEN Len(s) ELSE g
  IN {k \in from..limit : LitAt(s, k, lit)}

HrefLit == <<"h", "r", "e", "f", "=", Quote>>

AltLit == <<"a", "l", "t", "=", Quote>>

SrcLit == <<"s", "r", "c", "=", Quote>>

\* lit"([^"]+)"[^>]*> with lit at k: [val |-> the group, end |-> the index
\* just past the ">"], end = 0 when there is no match.
AttrToEnd(s, k, lit) ==
  LET v == k + Len(lit)
      q == FirstIn(s, v, {Quote})
  IN IF q > v
     THEN [val |-> Sub(s, v, q - 1), end |-> PastGT(s, q + 1)]
     ELSE [val |-> <<>>, end |-> 0]

\* The least e >= i at which </a\s*> matches, or 0: (.*?)</a\s*> from i.
FirstClose(s, i) ==
  IF \E e \in i..Len(s) : MatchClose(s, e, <<"a">>) > 0
  THEN CHOOSE e \in i..Len(s) :
         /\ MatchClose(s, e, <<"a">>) > 0
         /\ \A k \in i..(e - 1) : MatchClose(s, k, <<"a">>) = 0
  ELSE 0

\* <a[^>]*href="([^"]+)"[^>]*>(.*?)</a\s*> at i: the greedy [^>]* takes the
\* last href=" of the run for which the rest matches.
AnchorAt(s, i) ==
  LET none == [end |-> 0, href |-> <<>>, inner |-> <<>>]
      try(k) ==
        LET a == AttrToEnd(s, k, HrefLit)
            c == IF a.end = 0 THEN 0 ELSE FirstClose(s, a.end)
        IN IF c = 0 THEN none
           ELSE [end |-> MatchClose(s, c, <<"a">>), href |-> a.val,
                 inner |-> Sub(s, a.end, c - 1)]
  IN IF LitAt(s, i, <<"<", "a">>)
     THEN LET K == {k \in AttrStarts(s, i + 2, HrefLit) : try(k).end > 0}
          IN IF K = {} THEN none ELSE try(SetMax(K))
     ELSE none

\* re.sub(r"\s+", " ", inner)
CollapseWS(s) ==
  ReSub(s, [i \in Pos(s) |-> IF s[i] \in WS THEN SkipWhile(s, i, WS) ELSE 0],
           [i \in Pos(s) |-> <<" ">>])

_a_sub(href0, inner0) ==
  LET inner == Strip(CollapseWS(inner0))
      href == Strip(href0)
  IN IF inner # <<>> /\ href # <<>>
     THEN inner \o <<" ", "(">> \o href \o <<")">>
     ELSE IF inner # <<>> THEN inner ELSE href

ImgLit == <<"<", "i", "m", "g">>

ImgMark == <<"[", "i", "m", "g">>

\* <img[^>]*alt="([^"]*)"[^>]*src="([^"]+)"[^>]*> at i
ImgAltAt(s, i) ==
  LET none == [end |-> 0, alt |-> <<>>, src |-> <<>>]
      srcOf(k1) ==
        LET v == k1 + Len(AltLit)
            q == FirstIn(s, v, {Quote})
            K2 == IF q = 0 THEN {}
                  ELSE {k \in AttrStarts(s, q + 1, SrcLit) :
                          AttrToEnd(s, k, SrcLit).end > 0}
        IN IF K2 = {} THEN none
           ELSE LET a == AttrToEnd(s, SetMax(K2), SrcLit)
                IN [end |-> a.end, alt |-> Sub(s, v, q - 1), src |-> a.val]
  IN IF LitAt(s, i, ImgLit)
     THEN LET K1 == {k \in AttrStarts(s, i + 4, AltLit) : srcOf(k).end > 0}
          IN IF K1 = {} THEN none ELSE srcOf(SetMax(K1))
     ELSE none

_img_sub(alt0, src0) ==
  LET alt == Strip(alt0)
      src == Strip(src0)
  IN IF alt # <<>> /\ src # <<>>
     THEN ImgMark \o <<":", " ">> \o alt \o <<" ", "emdash", " ">> \o src \o <<"]">>
     ELSE IF src # <<>> THEN ImgMark \o <<":", " ">> \o src \o <<"]">>
     ELSE ImgMark \o <<"]">>

\* <img[^>]*src="([^"]+)"[^>]*> at i
ImgSrcAt(s, i) ==
  LET none == [end |-> 0, src |-> <<>>]
  IN IF LitAt(s, i, ImgLit)
     THEN LET K == {k \in AttrStarts(s, i + 4, SrcLit) :
                      AttrToEnd(s, k, SrcLit).end > 0}
          IN IF K = {} THEN none
             ELSE LET a == AttrToEnd(s, SetMax(K), SrcLit)
                  IN [end |-> a.end, src |-> a.val]
     ELSE none

\* <[a-z/][^>]*> at i: only what starts like a tag name.
MatchTagNamed(s, i) ==
  IF i + 1 <= Len(s) /\ s[i] = "<"
     /\ (Lower(s[i + 1]) \in {LowerChars[k] : k \in 1..Len(LowerChars)} \/ s[i + 1] = "/")
  THEN PastGT(s, i + 1)
  ELSE 0

\* <[^>]+> at i
MatchTag(s, i) ==
  IF i + 1 <= Len(s) /\ s[i] = "<" /\ s[i + 1] # ">"
  THEN PastGT(s, i + 1)
  ELSE 0

\* A run of at least least characters of C at i.
MatchRun(s, i, C, least) ==
  LET j == SkipWhile(s, i, C) IN IF j - i >= least THEN j ELSE 0

\* Line 140
BrToNewline(txt) ==
  ReSub(txt, [i \in Pos(txt) |-> MatchBr(txt, i)], [i \in Pos(txt) |-> <<"\n">>])

\* Line 143
CloseP(txt) ==
  ReSub(txt, [i \in Pos(txt) |-> MatchClose(txt, i, <<"p">>)],
             [i \in Pos(txt) |-> <<"\n", "\n">>])

\* Line 144
OpenP(txt) ==
  ReSub(txt, [i \in Pos(txt) |-> MatchOpenP(txt, i)], [i \in Pos(txt) |-> <<>>])

\* Line 147
OpenLi(txt) ==
  ReSub(txt, [i \in Pos(txt) |-> MatchLi(txt, i)],
             [i \in Pos(txt) |-> <<"bullet", " ">>])

\* Line 148
CloseLi(txt) ==
  ReSub(txt, [i \in Pos(txt) |-> MatchClose(txt, i, <<"l", "i">>)],
             [i \in Pos(txt) |-> <<"\n">>])

\* Line 149
ListTags(txt) ==
  ReSub(txt, [i \in Pos(txt) |-> MatchListTag(txt, i)], [i \in Pos(txt) |-> <<>>])

\* Lines 152-161
Links(txt) ==
  ReSub(txt, [i \in Pos(txt) |-> AnchorAt(txt, i).end],
             [i \in Pos(txt) |-> _a_sub(AnchorAt(txt, i).href, AnchorAt(txt, i).inner)])

\* Lines 164-173
ImagesAlt(txt) ==
  ReSub(txt, [i \in Pos(txt) |-> ImgAltAt(txt, i).end],
             [i \in Pos(txt) |-> _img_sub(ImgAltAt(txt, i).alt, ImgAltAt(txt, i).src)])

\* Line 174
ImagesSrc(txt) ==
  ReSub(txt, [i \in Pos(txt) |-> ImgSrcAt(txt, i).end],
             [i \in Pos(txt) |->
                ImgMark \o <<":", " ">> \o Strip(ImgSrcAt(txt, i).src) \o <<"]">>])

\* Line 177
StripTags(txt) ==
  ReSub(txt, [i \in Pos(txt) |-> MatchTag(txt, i)], [i \in Pos(txt) |-> <<>>])

\* Line 180: \r\n|\r
Newlines(txt) ==
  ReSub(txt, [i \in Pos(txt) |->
                IF txt[i] = "\r"
                THEN (IF i + 1 <= Len(txt) /\ txt[i + 1] = "\n" THEN i + 2 ELSE i + 1)
                ELSE 0],
             [i \in Pos(txt) |-> <<"\n">>])

\* Line 181: \n{3,}
BlankLines(txt) ==
  ReSub(txt, [i \in Pos(txt) |-> MatchRun(txt, i, {"\n"}, 3)],
             [i \in Pos(txt) |-> <<"\n", "\n">>])

\* Line 182: [ \t]{2,}
Spaces(txt) ==
  ReSub(txt, [i \in Pos(txt) |-> MatchRun(txt, i, {" ", "\t"}, 2)],
             [i \in Pos(txt) |-> <<" ">>])

\* Lines 133-182: the assignments to txt, in the order of the code.
Steps ==
  <<"&nbsp;", "&amp;", "&lt;", "&gt;", "br", "/p", "p", "li", "/li", "ul ol",
    "a", "img alt", "img", "tags", "newlines", "blank lines", "spaces">>

EntitySteps == 4

MarkupSteps == 14

\* One assignment to txt.
Step(name, txt) ==
  CASE name = "&nbsp;" -> Replace(txt, <<"&", "n", "b", "s", "p", ";">>, <<" ">>)
    [] name = "&amp;" -> Replace(txt, <<"&", "a", "m", "p", ";">>, <<"&">>)
    [] name = "&lt;" -> Replace(txt, <<"&", "l", "t", ";">>, <<"<">>)
    [] name = "&gt;" -> Replace(txt, <<"&", "g", "t", ";">>, <<">">>)
    [] name = "br" -> BrToNewline(txt)
    [] name = "/p" -> CloseP(txt)
    [] name = "p" -> OpenP(txt)
    [] name = "li" -> OpenLi(txt)
    [] name = "/li" -> CloseLi(txt)
    [] name = "ul ol" -> ListTags(txt)
    [] name = "a" -> Links(txt)
    [] name = "img alt" -> ImagesAlt(txt)
    [] name = "img" -> ImagesSrc(txt)
    [] name = "tags" -> StripTags(txt)
    [] name = "newlines" -> Newlines(txt)
    [] name = "blank lines" -> BlankLines(txt)
    [] name = "spaces" -> Spaces(txt)

\* The value t has been computed.
Done(t) == Len(t) >= 0

\* The steps one after the other, each on the computed result of the one
\* before it.
RECURSIVE Run(_, _)
Run(steps, txt) ==
  IF steps = <<>> \/ ~Done(txt) THEN txt
  ELSE Run(Tail(steps), Step(Head(steps), txt))

\* Lines 133-137: the four entities, in this order.
DecodeEntities(text) == Run(SubSeq(Steps, 1, EntitySteps), text)

Marks == {".", "!", "?", ";", ":"}

Digits == {"0", "1", "2", "3", "4", "5", "6", "7", "8", "9"}

Alnum ==
  {UpperChars[k] : k \in 1..Len(UpperChars)}
    \cup {LowerChars[k] : k \in 1..Len(LowerChars)} \cup Digits

\* ([.!?;:])(?=[A-Za-z0-9]) -> the mark and a space: the repair of
\* punctuation spacing, which the function does not have.
PunctRepair(txt) ==
  ReSub(txt, [i \in Pos(txt) |->
                IF txt[i] \in Marks /\ i + 1 <= Len(txt) /\ txt[i + 1] \in Alnum
                THEN i + 1 ELSE 0],
             [i \in Pos(txt) |-> <<txt[i], " ">>])

\* The function with the repair of punctuation spacing before the tidying.
html_to_plaintext_repairing(text) ==
  IF text = None THEN None
  ELSE Strip(Run(SubSeq(Steps, MarkupSteps + 1, Len(Steps)),
                 PunctRepair(Run(SubSeq(Steps, 1, MarkupSteps), text))))

\* The function with the entities decoded after the tags are stripped.
html_to_plaintext_decode_last(text) ==
  IF text = None THEN None
  ELSE Strip(Run(SubSeq(Steps, MarkupSteps + 1, Len(Steps)),
                 DecodeEntities(Run(SubSeq(Steps, EntitySteps + 1, MarkupSteps),
                                    text))))

\* Lines 119-184: None stays None; else the steps and the final strip().
_html_to_plaintext(text) ==
  IF text = None THEN None ELSE Strip(Run(Steps, text))

\* ------------------------------------------------------------ the inputs

\* Pieces of text that every input is built of.
CoreFrags ==
  {<<"<">>,
   <<">">>,
   <<"b">>,
   <<"&", "a", "m", "p", ";">>,
   <<"a", "m", "p", ";">>,
   <<"&", "l", "t", ";">>,
   <<"&", "g", "t", ";">>,
   <<".">>,
   <<" ">>,
   <<"\n">>}

MoreFrags ==
  {<<"&", "n", "b", "s", "p", ";">>,
   <<"n", "b", "s", "p", ";">>,
   <<"<", "b", "r", ">">>,
   <<"<", "B", "R", " ", "/", ">">>,
   <<"<", "p", ">">>,
   <<"<", "/", "p", ">">>,
   <<"<", "l", "i", ">", " ">>,
   <<"<", "/", "l", "i", ">">>,
   <<"<", "u", "l", ">">>,
   <<"<", "/", "o", "l", ">">>,
   <<"<", "a", " ", "h", "r", "e", "f", "=", Quote, "u", Quote, ">">>,
   <<"<", "/", "a", ">">>,
   <<"<", "a", " ", "h", "r", "e", "f", "=", Quote, "u", Quote, ">", "t", " ", " ", "x", "<", "/", "a", " ", ">">>,
   <<"<", "i", "m", "g", " ", "s", "r", "c", "=", Quote, "s", Quote, ">">>,
   <<"<", "i", "m", "g", " ", "a", "l", "t", "=", Quote, "x", Quote, " ", "s", "r", "c", "=", Quote, "s", Quote, ">">>,
   <<"<", "i", "m", "g", " ", "a", "l", "t", "=", Quote, Quote, " ", "s", "r", "c", "=", Quote, "s", Quote, ">">>,
   <<"1">>,
   <<"\t">>,
   <<"\r">>}

RECURSIVE Flatten(_)
Flatten(fs) == IF fs = <<>> THEN <<>> ELSE Head(fs) \o Flatten(Tail(fs))

\* The concatenations of at most n pieces of F.
TextsOf(F, n) == {Flatten(fs) : fs \in UNION {[1..k -> F] : k \in 0..n}}

\* The inputs of the documented examples.
DestinyAfter == <<"D", "e", "s", "t", "i", "n", "y", ".", "A", "f", "t", "e", "r">>

Examples ==
  {<<"A", "<", "b", "r", ">", "B">>,
   <<"<", "p", ">", "A", "<", "/", "p", ">", "<", "p", ">", "B", "<", "/",
    "p", ">">>,
   <<"<", "a", " ", "h", "r", "e", "f", "=", Quote, "h", "t", "t", "p",
    ":", "/", "/", "x", Quote, ">", "t", "<", "/", "a", ">">>,
   <<"&", "a", "m", "p", ";", "n", "b", "s", "p", ";">>,
   <<"&", "a", "m", "p", ";", "l", "t", ";", "b", "&", "a", "m", "p", ";",
    "g", "t", ";">>,
   <<"a", " ", "<", "b", ">", " ", "c">>,
   <<"x", "&", "l", "t", ";", "b", "&", "g", "t", ";", "y">>,
   DestinyAfter}

Texts ==
  TextsOf(CoreFrags \cup MoreFrags, MaxFrags) \cup TextsOf(CoreFrags, MaxCoreFrags)
    \cup Examples

\* ------------------------------------------------------------- the state

VARIABLES
  pc,               \* create_feeds: where the coroutine is
  config_exists,    \* config_loader.path.exists()
  single_feed_path, \* args.single_feed_path
  single_home_url,  \* args.single_home_url
  feed_configs,     \* get_all_feed_configs()
  gf,               \* index of the game feed the loop is at
  fetched,          \* the item lists fetch_items returned, in call order
  all_items,
  agg_meta,
  written,          \* the calls of writer.write_feed
  default_created,  \* create_default_config_file was called
  legacy_runs,      \* calls of GameFeedCollection.create_feeds
  error,            \* the exception create_feeds ended with
  raw,              \* the field values given to FeedItem(...)
  item,             \* the FeedItem constructed
  built,            \* "no", "ok" or "error" (ValidationError)
  errors,           \* the fields the ValidationError names
  calls,            \* calls of content_plaintext
  text,             \* the argument of _html_to_plaintext
  plain,            \* its result
  again             \* the result of applying it to plain

mainVars ==
  <<pc, config_exists, single_feed_path, single_home_url, feed_configs, gf,
    fetched, all_items, agg_meta, written, default_created, legacy_runs, error>>

itemVars == <<raw, item, built, errors, calls>>

normVars == <<text, plain, again>>

vars == <<mainVars, itemVars, normVars>>

\* A value not yet computed.
Unset == <<"unset">>

\* --------------------------------------------------- __main__.create_feeds

Reverse(s) == [i \in 1..Len(s) |-> s[Len(s) + 1 - i]]

\* x put into the ascending sequence s, after the elements with an equal id.
RECURSIVE InsertAsc(_, _)
InsertAsc(s, x) ==
  IF s = <<>> THEN <<x>>
  ELSE IF x.id < Head(s).id THEN <<x>> \o s
  ELSE <<Head(s)>> \o InsertAsc(Tail(s), x)

\* The stable ascending sort by id.
RECURSIVE StableSortAsc(_)
StableSortAsc(s) ==
  IF s = <<>> THEN <<>>
  ELSE InsertAsc(StableSortAsc(SubSeq(s, 1, Len(s) - 1)), s[Len(s)])

\* list.sort that ignores reverse.
list_sort_ascending(items, reverse) == StableSortAsc(items)

\* list.sort that reverses the ascending result: ties come out reversed.
list_sort_unstable(items, reverse) ==
  IF reverse THEN Reverse(StableSortAsc(items)) ELSE StableSortAsc(items)

\* list.sort(key=lambda item: item.id, reverse=...): with reverse the list
\* is reversed, sorted stably, and reversed again, so that equal keys keep
\* their order.
list_sort(items, reverse) ==
  IF reverse THEN Reverse(StableSortAsc(Reverse(items)))
  ELSE StableSortAsc(items)

\* The games and languages of the configured feeds, by position.
GameCodes == <<2, 6, 8, 1>>

Languages == <<"en-us", "de-de", "ja-jp", "zh-cn">>

\* What get_all_feed_configs can return.
FeedConfigs ==
  {[i \in 1..n |-> [game |-> GameCodes[i], language |-> Languages[i]]] :
     n \in 0..MaxSources}

\* The item lists a game feed's fetch_items can return: the items carry the
\* feed's game, and title tells the items of one list apart.
ItemLists(game, n) ==
  {[k \in 1..n |-> [id |-> ids[k], game |-> game, title |-> k]] :
     ids \in [1..n -> 1..MaxId]}

NoMeta == [game |-> 0, language |-> "", title |-> ""]

MainInit ==
  /\ pc = "start"
  /\ config_exists \in BOOLEAN
  /\ single_feed_path \in {"None", "all.json"}
  /\ single_home_url \in {"https://www.hoyolab.com/", "not a url"}
  /\ feed_configs = <<>>
  /\ gf = 0
  /\ fetched = <<>>
  /\ all_items = <<>>
  /\ agg_meta = NoMeta
  /\ written = <<>>
  /\ default_created = FALSE
  /\ legacy_runs = 0
  /\ error = ""

\* Lines 18-21
CreateDefault ==
  /\ pc = "start"
  /\ ~config_exists
  /\ default_created' = TRUE
  /\ pc' = "done"
  /\ UNCHANGED <<config_exists, single_feed_path, single_home_url, feed_configs,
                 gf, fetched, all_items, agg_meta, written, legacy_runs, error>>

\* Line 23
LoadConfigs ==
  /\ pc = "start"
  /\ config_exists
  /\ feed_configs' \in FeedConfigs
  /\ pc' = "loaded"
  /\ UNCHANGED <<config_exists, single_feed_path, single_home_url, gf, fetched,
                 all_items, agg_meta, written, default_created, legacy_runs, error>>

\* The legacy branch without its return: the aggregate mode follows.
LegacyFallsThrough ==
  /\ pc = "loaded"
  /\ single_feed_path = "None"
  /\ legacy_runs' = legacy_runs + 1
  /\ all_items' = <<>>
  /\ gf' = 1
  /\ pc' = "fetching"
  /\ UNCHANGED <<config_exists, single_feed_path, single_home_url, feed_configs,
                 fetched, agg_meta, written, default_created, error>>

\* Lines 26-29
Legacy ==
  /\ pc = "loaded"
  /\ single_feed_path = "None"
  /\ legacy_runs' = legacy_runs + 1
  /\ pc' = "done"
  /\ UNCHANGED <<config_exists, single_feed_path, single_home_url, feed_configs,
                 gf, fetched, all_items, agg_meta, written, default_created, error>>

\* Lines 32-40
AggregateBegin ==
  /\ pc = "loaded"
  /\ single_feed_path # "None"
  /\ all_items' = <<>>
  /\ gf' = 1
  /\ pc' = "fetching"
  /\ UNCHANGED <<config_exists, single_feed_path, single_home_url, feed_configs,
                 fetched, agg_meta, written, default_created, legacy_runs, error>>

\* Lines 41-43, fetch_items returns
Fetch ==
  /\ pc = "fetching"
  /\ gf <= Len(feed_configs)
  /\ \E n \in 0..(MaxItems - Len(all_items)) :
       \E items \in ItemLists(feed_configs[gf].game, n) :
         /\ fetched' = Append(fetched, [feed |-> gf, items |-> items])
         /\ all_items' = all_items \o items
  /\ gf' = gf + 1
  /\ UNCHANGED <<pc, config_exists, single_feed_path, single_home_url, feed_configs,
                 agg_meta, written, default_created, legacy_runs, error>>

\* fetch_items raises and the loop goes on to the next feed.
FetchRaisesSwallowed ==
  /\ pc = "fetching"
  /\ gf <= Len(feed_configs)
  /\ fetched' = Append(fetched, [feed |-> gf, items |-> <<>>])
  /\ error' = "FetchError"
  /\ gf' = gf + 1
  /\ UNCHANGED <<pc, config_exists, single_feed_path, single_home_url, feed_configs,
                 all_items, agg_meta, written, default_created, legacy_runs>>

\* Line 42, fetch_items raises: the exception leaves create_feeds.
FetchRaises ==
  /\ pc = "fetching"
  /\ gf <= Len(feed_configs)
  /\ fetched' = Append(fetched, [feed |-> gf, items |-> <<>>])
  /\ error' = "FetchError"
  /\ pc' = "raised"
  /\ UNCHANGED <<config_exists, single_feed_path, single_home_url, feed_configs, gf,
                 all_items, agg_meta, written, default_created, legacy_runs>>

\* Line 45, after the loop
Sort ==
  /\ pc = "fetching"
  /\ gf > Len(feed_configs)
  /\ all_items' = list_sort(all_items, TRUE)
  /\ pc' = "sorted"
  /\ UNCHANGED <<config_exists, single_feed_path, single_home_url, feed_configs, gf,
                 fetched, agg_meta, written, default_created, legacy_runs, error>>

\* Lines 48-61: feed_configs[0] raises IndexError on an empty list, and
\* parse_obj_as(HttpUrl, ...) a ValidationError on a string that is no URL.
BuildMeta ==
  /\ pc = "sorted"
  /\ IF Len(feed_configs) = 0
     THEN /\ error' = "IndexError"
          /\ pc' = "raised"
          /\ UNCHANGED agg_meta
     ELSE IF single_home_url = "not a url"
     THEN /\ error' = "ValidationError"
          /\ pc' = "raised"
          /\ UNCHANGED agg_meta
     ELSE /\ agg_meta' = [game |-> feed_configs[1].game,
                          language |-> feed_configs[1].language,
                          title |-> "Hoyolab - All Games"]
          /\ pc' = "meta"
          /\ UNCHANGED error
  /\ UNCHANGED <<config_exists, single_feed_path, single_home_url, feed_configs, gf,
                 fetched, all_items, written, default_created, legacy_runs>>

\* Line 62
Write ==
  /\ pc = "meta"
  /\ written' = Append(written, [meta |-> agg_meta, items |-> all_items])
  /\ pc' = "done"
  /\ UNCHANGED <<config_exists, single_feed_path, single_home_url, feed_configs, gf,
                 fetched, all_items, agg_meta, default_created, legacy_runs, error>>

\* ------------------------------------------------------------ models.FeedItem

MinAnystrLength == 1

NoItem == [title |-> None, author |-> None, content |-> None, summary |-> None]

StrFields == {"title", "author", "content", "summary"}

Required == {"title", "author", "content"}

\* Lines 187-189: the pre-validator of summary.
_summary_to_plaintext(v) == _html_to_plaintext(v)

\* The value a str field is validated from.
PreValidated(r, f) ==
  IF f = "summary" THEN _summary_to_plaintext(r[f]) ELSE r[f]

\* The field value with anystr_strip_whitespace off.
NotStripped(v) == v

\* Config.anystr_strip_whitespace: the value the field gets.
Stripped(v) == IF v = None THEN None ELSE Strip(v)

Validated(r) == [f \in StrFields |-> Stripped(PreValidated(r, f))]

\* A str field of MyBaseModel is in error when a required one is None or
\* when its stripped value v is shorter than Config.min_anystr_length.
FieldError(f, v) ==
  IF v = None THEN f \in Required ELSE Len(v) < MinAnystrLength

ValidTitle == <<"T">>

ValidContent == <<"<", "p", ">", "c", "<", "/", "p", ">">>

SmallStrs == {<<>>, <<" ">>, <<"T">>, <<" ", "T", "\n">>}

\* A valid item but for the given content and summary.
RawWith(c, s) ==
  [title |-> ValidTitle, author |-> ValidTitle, content |-> c, summary |-> s]

\* The field values FeedItem is constructed from: small values of every
\* field, any content, or any summary.
ItemInit ==
  /\ \/ raw \in {[title |-> t, author |-> a, content |-> c, summary |-> s] :
                   t \in SmallStrs \cup {None}, a \in SmallStrs, c \in SmallStrs,
                   s \in {None, <<"s">>}}
     \/ \E c \in TextsOf(CoreFrags \cup MoreFrags, MaxContentFrags) :
          raw = RawWith(c, None)
     \/ \E s \in Texts : raw = RawWith(ValidContent, s)
  /\ item = NoItem
  /\ built = "no"
  /\ errors = {}
  /\ calls = 0
  /\ plain = Unset

\* FeedItem(**raw), lines 106-116 under the Config of lines 90-93
Construct ==
  /\ built = "no"
  /\ LET v == Validated(raw)
         bad == {f \in StrFields : FieldError(f, v[f])}
     IN /\ errors' = bad
        /\ IF bad = {}
           THEN item' = v /\ built' = "ok"
           ELSE item' = item /\ built' = "error"
  /\ UNCHANGED <<raw, calls, plain>>

\* content_plaintext that stores its result in content.
content_plaintext_mutating ==
  /\ built = "ok"
  /\ calls < MaxCalls
  /\ plain' = _html_to_plaintext(item.content)
  /\ item' = [item EXCEPT !.content = _html_to_plaintext(item.content)]
  /\ calls' = calls + 1
  /\ UNCHANGED <<raw, built, errors>>

\* Lines 192-193
content_plaintext ==
  /\ built = "ok"
  /\ calls < MaxCalls
  /\ plain' = _html_to_plaintext(item.content)
  /\ calls' = calls + 1
  /\ UNCHANGED <<raw, item, built, errors>>

\* ------------------------------------------------------ _html_to_plaintext

NormInit ==
  /\ text \in Texts \cup {None}
  /\ plain = Unset
  /\ again = Unset

\* _html_to_plaintext(text)
Normalize ==
  /\ plain = Unset
  /\ plain' = _html_to_plaintext(text)
  /\ UNCHANGED <<text, again>>

\* _html_to_plaintext applied to its own result
NormalizeAgain ==
  /\ plain # Unset
  /\ again = Unset
  /\ again' = _html_to_plaintext(plain)
  /\ UNCHANGED <<text, plain>>

\* ------------------------------------------------------ the specifications

MainIdle ==
  /\ pc = "idle" /\ config_exists = FALSE /\ single_feed_path = "None"
  /\ single_home_url = "" /\ feed_configs = <<>> /\ gf = 0 /\ fetched = <<>>
  /\ all_items = <<>> /\ agg_meta = NoMeta /\ written = <<>>
  /\ default_created = FALSE /\ legacy_runs = 0 /\ error = ""

ItemIdle ==
  /\ raw = NoItem /\ item = NoItem /\ built = "idle" /\ errors = {} /\ calls = 0

NormIdle == text = None /\ plain = Unset /\ again = Unset

Init == MainInit /\ ItemIdle /\ NormIdle

Next ==
  \/ CreateDefault /\ UNCHANGED <<itemVars, normVars>>
  \/ LoadConfigs /\ UNCHANGED <<itemVars, normVars>>
  \/ Legacy /\ UNCHANGED <<itemVars, normVars>>
  \/ AggregateBegin /\ UNCHANGED <<itemVars, normVars>>
  \/ Fetch /\ UNCHANGED <<itemVars, normVars>>
  \/ FetchRaises /\ UNCHANGED <<itemVars, normVars>>
  \/ Sort /\ UNCHANGED <<itemVars, normVars>>
  \/ BuildMeta /\ UNCHANGED <<itemVars, normVars>>
  \/ Write /\ UNCHANGED <<itemVars, normVars>>

Spec == Init /\ [][Next]_vars

InitItem == MainIdle /\ ItemInit /\ text = None /\ again = Unset

NextItem ==
  \/ Construct /\ UNCHANGED <<mainVars, text, again>>
  \/ content_plaintext /\ UNCHANGED <<mainVars, text, again>>

SpecItem == InitItem /\ [][NextItem]_vars

InitNorm == MainIdle /\ ItemIdle /\ NormInit

NextNorm ==
  \/ Normalize /\ UNCHANGED <<mainVars, itemVars>>
  \/ NormalizeAgain /\ UNCHANGED <<mainVars, itemVars>>

SpecNorm == InitNorm /\ [][NextNorm]_vars

\* ------------------------------------------------------------- the claims

\* The concatenation of the fetched item lists, in call order.
Concat == Flatten([i \in 1..Len(fetched) |-> fetched[i].items])

Count(x, s) == Cardinality({i \in 1..Len(s) : s[i] = x})

IsPermutation(a, b) ==
  /\ Len(a) = Len(b)
  /\ \A i \in 1..Len(a) : Count(a[i], a) = Count(a[i], b)

Descending(s) == \A i \in 1..(Len(s) - 1) : s[i].id >= s[i + 1].id

PosIn(x, s) == CHOOSE i \in 1..Len(s) : s[i] = x

Ids(s) == [i \in 1..Len(s) |-> s[i].id]

\* C1: the item sequence handed to write_feed is a permutation of the
\* concatenation of the fetched lists (nothing dropped, duplicated or
\* invented) and is ordered by id, descending.
C1_MergedIsSortedPermutation ==
  \A w \in 1..Len(written) :
    /\ IsPermutation(written[w].items, Concat)
    /\ Descending(written[w].items)

\* The documented example [[5], [10, 3]] -> [10, 5, 3], with ids 2, 3, 1.
C1_Witness ==
  /\ Len(written) = 1
  /\ Len(fetched) = 2
  /\ Ids(fetched[1].items) = <<2>>
  /\ Ids(fetched[2].items) = <<3, 1>>
  /\ Ids(written[1].items) = <<3, 2, 1>>

\* C2: items of equal id keep, in the sequence handed to write_feed, the
\* order they have in the concatenation of the fetched lists.
C2_TiesKeepSourceOrder ==
  \A w \in 1..Len(written) :
    LET m == written[w].items
    IN \A i, j \in 1..Len(m) :
         (i < j /\ m[i].id = m[j].id) => PosIn(m[i], Concat) < PosIn(m[j], Concat)

\* Equal ids from two feeds, and equal ids within one feed, were written.
C2_Witness ==
  /\ Len(written) = 1
  /\ LET m == written[1].items
     IN /\ \E i, j \in 1..Len(m) : i < j /\ m[i].id = m[j].id /\ m[i].game # m[j].game
        /\ \E i, j \in 1..Len(m) : i < j /\ m[i].id = m[j].id /\ m[i].game = m[j].game

\* C3: the aggregation of empty input (no configured feed, or every feed
\* returning no item) ends without an error and writes an empty sequence.
C3_EmptyInputNoError ==
  ( /\ pc \in {"done", "raised"}
    /\ config_exists
    /\ single_feed_path # "None"
    /\ single_home_url # "not a url"
    /\ error # "FetchError"
    /\ \A i \in 1..Len(fetched) : fetched[i].items = <<>> )
  => ( /\ pc = "done"
       /\ error = ""
       /\ Len(written) = 1
       /\ written[1].items = <<>> )

\* C9: write_feed is called at most once, and only after fetch_items has
\* returned for every configured feed, each fetched once and in the
\* configured order; once a fetch has raised, nothing is written.
C9_WriteOnceAfterAllFetches ==
  /\ Len(written) <= 1
  /\ Len(fetched) <= Len(feed_configs)
  /\ \A i \in 1..Len(fetched) : fetched[i].feed = i
  /\ written # <<>> => Len(fetched) = Len(feed_configs)
  /\ error = "FetchError" => written = <<>>

C9_Witness ==
  /\ Len(written) = 1
  /\ Len(feed_configs) = 2
  /\ Len(written[1].items) >= 2

\* The aggregate mode was entered.
AggregateTaken == pc \in {"fetching", "sorted", "meta"} \/ fetched # <<>>
                    \/ written # <<>> \/ error # ""

\* C10: a run takes one of three paths and no other: without a config file
\* it creates the default one and fetches and writes nothing; with one and
\* no single-feed path it runs the legacy generation and never the
\* aggregate mode; otherwise the aggregate mode and never the legacy one.
C10_ExclusivePaths ==
  /\ ~config_exists => legacy_runs = 0 /\ ~AggregateTaken
  /\ config_exists => ~default_created
  /\ (config_exists /\ single_feed_path = "None") => ~AggregateTaken
  /\ (config_exists /\ single_feed_path # "None") => legacy_runs = 0
  /\ pc \in {"done", "raised"} =>
       /\ default_created = ~config_exists
       /\ legacy_runs = (IF config_exists /\ single_feed_path = "None" THEN 1 ELSE 0)
       /\ AggregateTaken = (config_exists /\ single_feed_path # "None")

C10_Witness ==
  /\ pc = "done"
  /\ legacy_runs = 1
  /\ Len(feed_configs) = 2

\* One of the four entities occurs in s.
HasEntity(s) ==
  \E i \in 1..Len(s) :
    \/ ExactAt(s, i, <<"&", "n", "b", "s", "p", ";">>)
    \/ ExactAt(s, i, <<"&", "a", "m", "p", ";">>)
    \/ ExactAt(s, i, <<"&", "l", "t", ";">>)
    \/ ExactAt(s, i, <<"&", "g", "t", ";">>)

\* C4 as claimed: _html_to_plaintext applied to its own result returns it,
\* for every input.
C4_Idempotent == again # Unset => again = plain

\* C4, amended: _html_to_plaintext applied to its own result returns it,
\* whenever that result holds none of the four entities.
C4_IdempotentWithoutEntities ==
  (again # Unset /\ ~HasEntity(plain)) => again = plain

\* An input with an entity whose result, free of entities, is returned
\* unchanged by the second application.
C4_Witness ==
  /\ again # Unset
  /\ text # None
  /\ HasEntity(text)
  /\ ~HasEntity(plain)
  /\ plain # <<>>
  /\ plain # text
  /\ again = plain

\* The places where a mark is immediately followed by a letter or a digit.
TightMarks(s) == {i \in 1..(Len(s) - 1) : s[i] \in Marks /\ s[i + 1] \in Alnum}

\* Neither a tag nor an entity can start in s.
PlainText(s) == \A i \in 1..Len(s) : s[i] \notin {"<", "&"}

HasMarkup(s) ==
  \E i \in 1..Len(s) :
    /\ s[i] = "<"
    /\ i + 1 <= Len(s)
    /\ s[i + 1] # ">"
    /\ \E j \in (i + 2)..Len(s) : s[j] = ">"

C7_SummaryMarkupFree ==
  built = "ok" => (item.summary = None \/ ~HasMarkup(item.summary))

\* A summary given with entity-encoded markup.
C7_Witness ==
  /\ built = "ok"
  /\ raw.summary # None
  /\ ~HasMarkup(raw.summary)
  /\ HasMarkup(DecodeEntities(raw.summary))
  /\ item.summary # None

\* C8: a title, author or content that is empty once trimmed makes the
\* construction fail with an error naming the field, and no item is made;
\* a constructed item has all three at least one character long.
C8_EmptyFieldsRejected ==
  built \in {"ok", "error"} =>
    \A f \in Required :
      /\ (raw[f] # None /\ Strip(raw[f]) = <<>>) =>
           (built = "error" /\ f \in errors /\ item = NoItem)
      /\ built = "ok" => (item[f] # None /\ Len(Strip(item[f])) >= 1)

C8_Witness ==
  /\ built = "error"
  /\ raw.title = <<" ">>
  /\ raw.author = <<"T">>
  /\ errors = {"title", "content"}

====
